---- MODULE Spec2Model ----
(***************************************************************************)
(* Platform assignment engine and live delay driver of                     *)
(* src/components/train-scheduler.tsx.                                     *)
(*                                                                         *)
(* Times are minutes from 08:00, as in the source.  A train id "T<i>" is   *)
(* written as the number i.  The scoring weights are the source's values   *)
(* multiplied by ten, so that 1.0 / 0.3 / 0.5 are the integers             *)
(* 10 / 3 / 5; a comparison of two scores is unchanged by that common      *)
(* factor.                                                                 *)
(***************************************************************************)
EXTENDS Integers, Sequences, FiniteSets

VARIABLES
    trains,         \* Train[]: the argument of a run / the component's state
    weights,        \* ScoringWeights of the run
    withEffective,  \* AssignedTrain[]: the sorted working copy of a run
    platforms,      \* Platform[]: the list a run builds and returns
    pos,            \* position of the for-of loop in withEffective
    pc,             \* "idle" | "loop" | "done": where the run is
    prevResult,     \* result of the preceding run on the same arguments
    iv,             \* interval handle: "none" | "active" | "cleared"
    mounted,        \* whether the component's effect is in place
    lastDraw        \* what Math.random gave the last tick: the ids shuffled
                    \* to the front and the delay drawn for each of them

vars == <<trains, weights, withEffective, platforms, pos, pc, prevResult, iv, mounted,
          lastDraw>>

\* ------------------------------------------------------------------ bounds

\* longest train list handed to the engine
MaxTrains == 4

\* longest train list of the live component
MaxLive == 3

\* longest train list of the live component under its scheduling
MaxFair == 2

\* ------------------------------------------------------------------ data

Max(a, b) == IF a >= b THEN a ELSE b

Min(a, b) == IF a <= b THEN a ELSE b

\* const DEFAULT_WEIGHTS = { idleGap: 1.0, load: 0.3, delayedSpread: 0.5 }, times ten
DEFAULT_WEIGHTS == [idleGap |-> 10, load |-> 3, delayedSpread |-> 5]

\* weights a caller may pass: the default, all zero, load only
WeightChoices ==
    { DEFAULT_WEIGHTS,
      [idleGap |-> 0, load |-> 0, delayedSpread |-> 0],
      [idleGap |-> 0, load |-> 10, delayedSpread |-> 0] }

\* schedules the input lists are drawn from
TrainPool ==
    { [name |-> "A", arrival |-> 0,  departure |-> 20, delay |-> 0,  status |-> "on-time"],
      [name |-> "B", arrival |-> 10, departure |-> 30, delay |-> 0,  status |-> "on-time"],
      [name |-> "C", arrival |-> 25, departure |-> 40, delay |-> 0,  status |-> "on-time"],
      [name |-> "D", arrival |-> 0,  departure |-> 20, delay |-> 10, status |-> "delayed"],
      [name |-> "E", arrival |-> 30, departure |-> 20, delay |-> 0,  status |-> "on-time"],
      [name |-> "F", arrival |-> 20, departure |-> 25, delay |-> 5,  status |-> "delayed"] }

\* no tick has drawn anything yet
NoDraw == [delayedIds |-> {}, newDelay |-> << >>]

MkTrain(i, p) ==
    [id |-> i, name |-> p.name, arrival |-> p.arrival, departure |-> p.departure,
     delay |-> p.delay, status |-> p.status]

\* every train list of at most MaxTrains trains over TrainPool, ids by position
TrainLists ==
    UNION { { [i \in 1..n |-> MkTrain(i, f[i])] : f \in [1..n -> TrainPool] }
            : n \in 0..MaxTrains }

\* ------------------------------------------------------------------ engine

\* trains.map((t) => ({...t, effectiveArrival, effectiveDeparture}))
AssignedTrain(t) ==
    [id |-> t.id, name |-> t.name, arrival |-> t.arrival, departure |-> t.departure,
     delay |-> t.delay, status |-> t.status,
     effectiveArrival |-> t.arrival + t.delay,
     effectiveDeparture |-> t.departure + t.delay]

MapEffective(ts) == [i \in 1..Len(ts) |-> AssignedTrain(ts[i])]

\* the comparator (a, b) => a.effectiveArrival - b.effectiveArrival
Compare(a, b) == a.effectiveArrival - b.effectiveArrival

\* a sort that puts x before the elements it compares equal to
RECURSIVE KeepBeforeUnstable(_, _)
KeepBeforeUnstable(s, x) ==
    IF s = << >> THEN 0
    ELSE IF Compare(Head(s), x) >= 0 THEN 0
    ELSE 1 + KeepBeforeUnstable(Tail(s), x)

\* number of leading elements of s that the comparator does not put after x
RECURSIVE KeepBefore(_, _)
KeepBefore(s, x) ==
    IF s = << >> THEN 0
    ELSE IF Compare(Head(s), x) > 0 THEN 0
    ELSE 1 + KeepBefore(Tail(s), x)

\* insert x into the sorted s, after every element that compares <= x
InsertSorted(s, x) ==
    LET k == KeepBefore(s, x)
    IN  SubSeq(s, 1, k) \o <<x>> \o SubSeq(s, k + 1, Len(s))

\* Array.prototype.sort with the comparator: a stable sort
RECURSIVE SortByEffectiveArrival(_)
SortByEffectiveArrival(s) ==
    IF s = << >> THEN << >>
    ELSE InsertSorted(SortByEffectiveArrival(SubSeq(s, 1, Len(s) - 1)), s[Len(s)])

\* a platform list that starts with one platform holding no train
OneEmptyPlatform == << [id |-> 1, trains |-> << >>, nextFreeAt |-> 0] >>

\* a platform list kept from the preceding run
KeptPlatforms == IF prevResult = << >> THEN << >> ELSE prevResult[1]

\* const platforms: Platform[] = []
EmptyPlatforms == << >>

\* feasibility tested against the departure instead of the arrival
FeasibleByDeparture(pl, train) == pl.nextFreeAt <= train.effectiveDeparture

\* feasibility with the comparison turned around
FeasibleFlipped(pl, train) == pl.nextFreeAt >= train.effectiveArrival

\* feasibility: platform must be free by train.effectiveArrival
Feasible(pl, train) == pl.nextFreeAt <= train.effectiveArrival

Gap(pl, train) == Max(0, train.effectiveArrival - pl.nextFreeAt)

DelayedCount(pl) ==
    Cardinality({ i \in DOMAIN pl.trains : pl.trains[i].status = "delayed" })

Score(pl, train, w) ==
    w.idleGap * Gap(pl, train) + w.load * Len(pl.trains)
        + w.delayedSpread * DelayedCount(pl)

\* score < bestScore with bestScore starting at 0 instead of +Infinity
BetterFromZero(score, bestIdx, bestScore) == score < bestScore

\* score <= bestScore: the last minimum wins
BetterOrEqual(score, bestIdx, bestScore) == bestIdx = 0 \/ score <= bestScore

\* score < bestScore, bestScore being +Infinity as long as bestIdx is -1 (here 0)
Better(score, bestIdx, bestScore) == bestIdx = 0 \/ score < bestScore

\* the inner for loop from index i on; bestIdx 0 stands for the source's -1
RECURSIVE Scan(_, _, _, _, _, _)
Scan(pls, train, w, i, bestIdx, bestScore) ==
    IF i > Len(pls) THEN bestIdx
    ELSE IF Feasible(pls[i], train)
              /\ Better(Score(pls[i], train, w), bestIdx, bestScore)
         THEN Scan(pls, train, w, i + 1, i, Score(pls[i], train, w))
         ELSE Scan(pls, train, w, i + 1, bestIdx, bestScore)

BestIdx(pls, train, w) == Scan(pls, train, w, 1, 0, 0)

\* an assignment that pushes the train and leaves nextFreeAt as it was
PushTrainKeepFree(pl, train) ==
    [id |-> pl.id, trains |-> Append(pl.trains, train), nextFreeAt |-> pl.nextFreeAt]

\* an assignment that replaces the platform's trains instead of pushing
PushTrainOverwrite(pl, train) ==
    [id |-> pl.id, trains |-> <<train>>, nextFreeAt |-> train.effectiveDeparture]

\* pl.trains.push(train); pl.nextFreeAt = train.effectiveDeparture
PushTrain(pl, train) ==
    [id |-> pl.id, trains |-> Append(pl.trains, train),
     nextFreeAt |-> train.effectiveDeparture]

\* a new platform numbered from 0
NewPlatformZeroBased(pls, train) ==
    [id |-> Len(pls), trains |-> <<train>>,
     nextFreeAt |-> train.effectiveDeparture]

\* platforms.push({ id: platforms.length + 1, trains: [train], nextFreeAt })
NewPlatform(pls, train) ==
    [id |-> Len(pls) + 1, trains |-> <<train>>,
     nextFreeAt |-> train.effectiveDeparture]

\* one iteration of the outer loop
PlaceTrain(pls, train, w) ==
    LET b == BestIdx(pls, train, w)
    IN  IF b >= 1
        THEN [pls EXCEPT ![b] = PushTrain(pls[b], train)]
        ELSE Append(pls, NewPlatform(pls, train))

\* ------------------------------------------------------------------ actions

\* entry of assignPlatformsScoreBased(ts): map, sort, empty platform list
BeginRun(ts) ==
    /\ withEffective' = SortByEffectiveArrival(MapEffective(ts))
    /\ platforms' = EmptyPlatforms
    /\ pos' = 1
    /\ pc' = "loop"

\* the engine is called on the train list (by a caller, or by the render
\* of the mounted component through useMemo)
StartRun ==
    /\ pc = "idle"
    /\ mounted \/ iv = "none"
    /\ BeginRun(trains)
    /\ UNCHANGED <<trains, weights, prevResult, iv, mounted, lastDraw>>

\* one iteration of for (const train of withEffective)
Place ==
    /\ pc = "loop"
    /\ pos <= Len(withEffective)
    /\ platforms' = PlaceTrain(platforms, withEffective[pos], weights)
    /\ pos' = pos + 1
    /\ UNCHANGED <<trains, weights, withEffective, pc, prevResult, iv, mounted, lastDraw>>

\* return platforms
Return ==
    /\ pc = "loop"
    /\ pos > Len(withEffective)
    /\ pc' = "done"
    /\ UNCHANGED <<trains, weights, withEffective, platforms, pos, prevResult, iv, mounted, lastDraw>>

\* the finished run's lists are no longer current: a new call is due
Invalidate ==
    /\ withEffective' = << >>
    /\ platforms' = << >>
    /\ pos' = 0
    /\ pc' = "idle"

\* the caller keeps the result and invokes the engine again with the same
\* arguments
CallAgain ==
    /\ pc = "done"
    /\ prevResult' = <<platforms>>
    /\ Invalidate
    /\ UNCHANGED <<trains, weights, iv, mounted, lastDraw>>

Init ==
    /\ trains \in TrainLists
    /\ weights \in WeightChoices
    /\ withEffective = << >>
    /\ platforms = << >>
    /\ pos = 0
    /\ pc = "idle"
    /\ prevResult = << >>
    /\ iv = "none"
    /\ mounted = FALSE
    /\ lastDraw = NoDraw

Next == StartRun \/ Place \/ Return \/ CallAgain

Spec == Init /\ [][Next]_vars

\* the pool with a train that arrives when B, D and F leave
WidePool ==
    TrainPool \cup
    { [name |-> "G", arrival |-> 30, departure |-> 50, delay |-> 0, status |-> "on-time"] }

\* every train list of at most MaxTrains trains over WidePool, ids by position
WideLists ==
    UNION { { [i \in 1..n |-> MkTrain(i, f[i])] : f \in [1..n -> WidePool] }
            : n \in 0..MaxTrains }

InitWide ==
    /\ trains \in WideLists
    /\ weights \in WeightChoices
    /\ withEffective = << >>
    /\ platforms = << >>
    /\ pos = 0
    /\ pc = "idle"
    /\ prevResult = << >>
    /\ iv = "none"
    /\ mounted = FALSE
    /\ lastDraw = NoDraw

SpecWide == InitWide /\ [][Next]_vars

\* ------------------------------------------------------------------ live delay driver

\* function initializeTrains(): the 18 trains, id "T<i>" written i
initializeTrains ==
    << [id |-> 1,  name |-> "Red Line 101", arrival |-> 10,  departure |-> 40,  delay |-> 0, status |-> "on-time"],
       [id |-> 2,  name |-> "Coastal 202",  arrival |-> 25,  departure |-> 70,  delay |-> 0, status |-> "on-time"],
       [id |-> 3,  name |-> "Express 303",  arrival |-> 60,  departure |-> 100, delay |-> 0, status |-> "on-time"],
       [id |-> 4,  name |-> "Metro 404",    arrival |-> 80,  departure |-> 120, delay |-> 0, status |-> "on-time"],
       [id |-> 5,  name |-> "Regional 505", arrival |-> 110, departure |-> 150, delay |-> 0, status |-> "on-time"],
       [id |-> 6,  name |-> "CityLink 606", arrival |-> 140, departure |-> 175, delay |-> 0, status |-> "on-time"],
       [id |-> 7,  name |-> "Valley 707",   arrival |-> 170, departure |-> 205, delay |-> 0, status |-> "on-time"],
       [id |-> 8,  name |-> "Summit 808",   arrival |-> 195, departure |-> 235, delay |-> 0, status |-> "on-time"],
       [id |-> 9,  name |-> "Harbor 909",   arrival |-> 0,   departure |-> 20,  delay |-> 0, status |-> "on-time"],
       [id |-> 10, name |-> "Forest 919",   arrival |-> 18,  departure |-> 55,  delay |-> 0, status |-> "on-time"],
       [id |-> 11, name |-> "River 929",    arrival |-> 45,  departure |-> 85,  delay |-> 0, status |-> "on-time"],
       [id |-> 12, name |-> "Garden 939",   arrival |-> 90,  departure |-> 125, delay |-> 0, status |-> "on-time"],
       [id |-> 13, name |-> "Meadow 949",   arrival |-> 105, departure |-> 140, delay |-> 0, status |-> "on-time"],
       [id |-> 14, name |-> "Cedar 959",    arrival |-> 130, departure |-> 165, delay |-> 0, status |-> "on-time"],
       [id |-> 15, name |-> "Pine 969",     arrival |-> 155, departure |-> 190, delay |-> 0, status |-> "on-time"],
       [id |-> 16, name |-> "Oak 979",      arrival |-> 165, departure |-> 200, delay |-> 0, status |-> "on-time"],
       [id |-> 17, name |-> "Spruce 989",   arrival |-> 200, departure |-> 235, delay |-> 0, status |-> "on-time"],
       [id |-> 18, name |-> "Willow 999",   arrival |-> 210, departure |-> 240, delay |-> 0, status |-> "on-time"] >>

\* the component's initial train list, cut to at most MaxLive trains
LiveLists ==
    { SubSeq(initializeTrains, 1, n) : n \in 0..Min(MaxLive, Len(initializeTrains)) }

\* shuffled.slice(0, 2)
SLICE_END == 2

\* 5 + Math.floor(Math.random() * 14)
DELAY_BASE == 5

DELAY_SPAN == 14

\* delays drawn with Math.round in place of Math.floor
NewDelaysRounded == { DELAY_BASE + r : r \in 0..DELAY_SPAN }

\* the values of newDelay: Math.random() is in [0, 1)
NewDelays == { DELAY_BASE + r : r \in 0..(DELAY_SPAN - 1) }

\* new Set(shuffled.slice(0, 2)): the ids at the first two positions of any
\* order of the id list
DelayedIdSets(prev) ==
    { { prev[i].id : i \in P } :
        P \in { Q \in SUBSET (DOMAIN prev) : Cardinality(Q) = Min(SLICE_END, Len(prev)) } }

\* a tick that writes the delay into the scheduled times as well
TickResultShifting(prev, delayedIds, newDelay) ==
    [i \in DOMAIN prev |->
        IF prev[i].id \in delayedIds
        THEN [prev[i] EXCEPT !.delay = newDelay[i], !.status = "delayed",
                             !.arrival = @ + newDelay[i], !.departure = @ + newDelay[i]]
        ELSE [prev[i] EXCEPT !.delay = 0, !.status = "on-time"]]

\* prev.map(...) for the chosen ids and the delays drawn for them
TickResult(prev, delayedIds, newDelay) ==
    [i \in DOMAIN prev |->
        IF prev[i].id \in delayedIds
        THEN [prev[i] EXCEPT !.delay = newDelay[i], !.status = "delayed"]
        ELSE [prev[i] EXCEPT !.delay = 0, !.status = "on-time"]]

\* every outcome of the random calls of one tick on prev: the ids put in
\* delayedIds and a delay for each position whose train has one of them
Draws(prev) ==
    UNION { [delayedIds : {ids},
             newDelay : [{ i \in DOMAIN prev : prev[i].id \in ids } -> NewDelays]]
            : ids \in DelayedIdSets(prev) }

\* function tick(): setTrains((prev) => ...) with some draw
Tick ==
    /\ lastDraw' \in Draws(trains)
    /\ trains' = TickResult(trains, lastDraw'.delayedIds, lastDraw'.newDelay)

\* a cleanup that leaves the interval running
LeaveInterval(handle) == handle

\* clearInterval(iv)
clearInterval(handle) == "cleared"

\* the effect after the first render: tick(), then setInterval(tick, 4000);
\* the new train list invalidates the memoized platforms ([trains])
MountEffect ==
    /\ ~mounted
    /\ iv = "none"
    /\ pc = "done"
    /\ Tick
    /\ Invalidate
    /\ iv' = "active"
    /\ mounted' = TRUE
    /\ UNCHANGED <<weights, prevResult>>

\* the interval fires: tick(); the new train list invalidates the memoized
\* platforms ([trains])
IntervalTick ==
    /\ iv = "active"
    /\ pc = "done"
    /\ Tick
    /\ Invalidate
    /\ UNCHANGED <<weights, prevResult, iv, mounted>>

\* the effect's cleanup on unmount
Unmount ==
    /\ mounted
    /\ pc # "loop"
    /\ iv' = clearInterval(iv)
    /\ mounted' = FALSE
    /\ UNCHANGED <<trains, weights, withEffective, platforms, pos, pc, prevResult, lastDraw>>

\* the component after useState and before its first render
InitialRender(lists) ==
    /\ trains \in lists
    /\ weights = DEFAULT_WEIGHTS
    /\ withEffective = << >>
    /\ platforms = << >>
    /\ pos = 0
    /\ pc = "idle"
    /\ prevResult = << >>
    /\ iv = "none"
    /\ mounted = FALSE
    /\ lastDraw = NoDraw

\* the component's initial train list, cut to at most MaxFair trains
FairLists ==
    { SubSeq(initializeTrains, 1, n) : n \in 0..Min(MaxFair, Len(initializeTrains)) }

InitLive == InitialRender(LiveLists)

InitFair == InitialRender(FairLists)

NextLive == StartRun \/ Place \/ Return \/ MountEffect \/ IntervalTick \/ Unmount

SpecLive == InitLive /\ [][NextLive]_vars

\* rendering runs to completion, effects run after the first render, and an
\* interval that is active keeps firing
FairLive ==
    /\ InitFair
    /\ [][NextLive]_vars
    /\ WF_vars(StartRun \/ Place \/ Return)
    /\ WF_vars(MountEffect)
    /\ WF_vars(IntervalTick)

\* ------------------------------------------------------------------ metrics

\* a / b as the fraction it is; the source divides in floating point
Quotient(a, b) == [num |-> a, den |-> b]

\* the number 0
Zero == [num |-> 0, den |-> 1]

\* pl.trains.reduce((sum, t) => sum + t.delay, 0)
RECURSIVE TotalDelay(_)
TotalDelay(ts) ==
    IF ts = << >> THEN 0 ELSE Head(ts).delay + TotalDelay(Tail(ts))

IsDelayed(t) == t.status = "delayed"

\* pl.trains.filter((t) => t.status === "delayed").length
DelayedTrains(ts) == Len(SelectSeq(ts, IsDelayed))

\* an end metric that leaves the delayed trains out
EndMetricDelayOnly(totalDelay, delayedCount, totalTrains) ==
    IF totalTrains > 0 THEN Quotient(totalDelay, totalTrains) ELSE Zero

\* totalTrains > 0 ? (totalDelay + delayedCount) / totalTrains : 0
EndMetric(totalDelay, delayedCount, totalTrains) ==
    IF totalTrains > 0 THEN Quotient(totalDelay + delayedCount, totalTrains) ELSE Zero

\* the value stored for one platform
MetricsOf(pl) ==
    [endMetric |-> EndMetric(TotalDelay(pl.trains), DelayedTrains(pl.trains), Len(pl.trains)),
     totalDelay |-> TotalDelay(pl.trains),
     delayedCount |-> DelayedTrains(pl.trains),
     totalTrains |-> Len(pl.trains)]

\* map.set(key, value)
MapSet(map, key, value) ==
    [k \in (DOMAIN map) \cup {key} |-> IF k = key THEN value ELSE map[k]]

\* for (const pl of platforms) map.set(pl.id, {...}), from an empty Map
RECURSIVE MetricsMap(_, _)
MetricsMap(map, pls) ==
    IF pls = << >> THEN map
    ELSE MetricsMap(MapSet(map, Head(pls).id, MetricsOf(Head(pls))), Tail(pls))

\* const platformMetrics = useMemo(..., [platforms])
platformMetrics == MetricsMap(<< >>, platforms)

\* ------------------------------------------------------------------ helpers of the properties

RECURSIVE SumLens(_)
SumLens(pls) ==
    IF pls = << >> THEN 0 ELSE Len(Head(pls).trains) + SumLens(Tail(pls))

\* the places <<p, k>> of a platform list
Places(pls) == { <<p, k>> \in (DOMAIN pls) \X (1..SumLens(pls)) : k <= Len(pls[p].trains) }

\* the platform pl as it was before its last train was pushed
BeforePush(pl) ==
    [id |-> pl.id, trains |-> SubSeq(pl.trains, 1, Len(pl.trains) - 1),
     nextFreeAt |-> pl.trains[Len(pl.trains) - 1].effectiveDeparture]

\* the train the loop placed last
LastPlaced == withEffective[pos - 1]

\* the loop's last step pushed LastPlaced onto the existing platform b
PushedOnto(b) ==
    /\ pc = "loop"
    /\ pos > 1
    /\ b \in DOMAIN platforms
    /\ Len(platforms[b].trains) >= 2
    /\ platforms[b].trains[Len(platforms[b].trains)] = LastPlaced

\* ------------------------------------------------------------------ C1

\* C1: when a run has returned, every input train is at exactly one place of
\* the platform list (as its derived copy), and the platforms' sequence
\* lengths add up to the number of input trains.
C1_Partition ==
    pc = "done" =>
        /\ \A i \in DOMAIN trains :
              Cardinality({ q \in Places(platforms) :
                              platforms[q[1]].trains[q[2]].id = trains[i].id }) = 1
        /\ \A i \in DOMAIN trains :
              \E q \in Places(platforms) :
                  platforms[q[1]].trains[q[2]] = AssignedTrain(trains[i])
        /\ SumLens(platforms) = Len(trains)

C1_Witness ==
    /\ pc = "done"
    /\ Len(trains) >= 3
    /\ Len(platforms) >= 2
    /\ \E p \in DOMAIN platforms : Len(platforms[p].trains) >= 2

\* ------------------------------------------------------------------ C2

\* C2: on every platform, a train's effectiveArrival is at least the
\* effectiveDeparture of the train assigned to that platform just before it.
C2_NonOverlap ==
    \A p \in DOMAIN platforms :
        \A k \in 1..(Len(platforms[p].trains) - 1) :
            platforms[p].trains[k + 1].effectiveArrival
                >= platforms[p].trains[k].effectiveDeparture

\* two adjacent trains, the earlier one delayed, the later one arriving
\* exactly at its effective departure
C2_Witness ==
    /\ pc = "done"
    /\ \E p \in DOMAIN platforms :
          \E k \in 1..(Len(platforms[p].trains) - 1) :
              /\ platforms[p].trains[k].delay > 0
              /\ platforms[p].trains[k + 1].effectiveArrival
                    = platforms[p].trains[k].effectiveDeparture

\* ------------------------------------------------------------------ C3

\* C3: a step that changes an existing platform is a step of the loop that
\* pushes the current train onto it, and that platform's nextFreeAt before
\* the step is at most the train's effectiveArrival.
C3_MonotonicFeasibility ==
    [][ \A b \in DOMAIN platforms :
            (b \in DOMAIN platforms' /\ platforms'[b] # platforms[b]) =>
                /\ pc = "loop"
                /\ pos <= Len(withEffective)
                /\ platforms'[b].trains = Append(platforms[b].trains, withEffective[pos])
                /\ platforms[b].nextFreeAt <= withEffective[pos].effectiveArrival
      ]_vars

\* a train was pushed onto a platform that had been free for some time
C3_Witness ==
    \E b \in DOMAIN platforms :
        /\ PushedOnto(b)
        /\ BeforePush(platforms[b]).nextFreeAt < LastPlaced.effectiveArrival

\* ------------------------------------------------------------------ C4

\* the platforms feasible for the train the loop is about to place
FeasibleNow ==
    { j \in DOMAIN platforms : Feasible(platforms[j], withEffective[pos]) }

ScoreNow(j) == Score(platforms[j], withEffective[pos], weights)

\* C4: when some platform is feasible for the train being placed, the step
\* pushes the train onto a feasible platform of minimal score, the lowest
\* index among those of minimal score, and changes nothing else.
C4_SelectionRule ==
    [][ (pc = "loop" /\ pos <= Len(withEffective) /\ FeasibleNow # {}) =>
            \E b \in FeasibleNow :
                /\ \A j \in FeasibleNow : ScoreNow(b) <= ScoreNow(j)
                /\ \A j \in FeasibleNow : ScoreNow(j) = ScoreNow(b) => b <= j
                /\ platforms' = [platforms EXCEPT ![b] = PushTrain(platforms[b], withEffective[pos])]
      ]_vars

\* the platform list before the loop's last step, which pushed onto b
BeforeLast(b) == [platforms EXCEPT ![b] = BeforePush(platforms[b])]

\* the last step chose platform b although a later platform j was feasible
\* with the same score, and (separately reachable) chose a platform b
\* although an earlier one was feasible with a higher score
C4_Witness ==
    \E b \in DOMAIN platforms :
        /\ PushedOnto(b)
        /\ \E j \in DOMAIN platforms :
              /\ j > b
              /\ Feasible(BeforeLast(b)[j], LastPlaced)
              /\ Score(BeforeLast(b)[j], LastPlaced, weights)
                    = Score(BeforeLast(b)[b], LastPlaced, weights)
              /\ weights = DEFAULT_WEIGHTS

C4_WitnessLater ==
    \E b \in DOMAIN platforms :
        /\ PushedOnto(b)
        /\ \E j \in DOMAIN platforms :
              /\ j < b
              /\ Feasible(BeforeLast(b)[j], LastPlaced)
              /\ Score(BeforeLast(b)[j], LastPlaced, weights)
                    > Score(BeforeLast(b)[b], LastPlaced, weights)

\* ------------------------------------------------------------------ C5

\* position of the train with this id in the input list
InputPos(id) == CHOOSE i \in DOMAIN trains : trains[i].id = id

\* the ids of the trains on the platforms
PlacedIds == { platforms[q[1]].trains[q[2]].id : q \in Places(platforms) }

\* C5: the processing sequence holds the input trains in ascending order of
\* effectiveArrival, trains of equal effectiveArrival in input order, and
\* the trains placed so far are exactly those before the loop's position.
C5_ProcessingOrder ==
    pc \in {"loop", "done"} =>
        /\ Len(withEffective) = Len(trains)
        /\ \A i \in DOMAIN trains :
              \E k \in DOMAIN withEffective : withEffective[k] = AssignedTrain(trains[i])
        /\ \A k \in DOMAIN withEffective :
              withEffective[k].effectiveArrival
                  = withEffective[k].arrival + withEffective[k].delay
        /\ \A j, k \in DOMAIN withEffective :
              j < k =>
                  /\ withEffective[j].effectiveArrival <= withEffective[k].effectiveArrival
                  /\ withEffective[j].effectiveArrival = withEffective[k].effectiveArrival
                        => InputPos(withEffective[j].id) < InputPos(withEffective[k].id)
        /\ PlacedIds = { withEffective[k].id : k \in 1..(pos - 1) }

\* two trains of equal effectiveArrival have been placed, and the sort moved
\* a train in front of one that precedes it in the input
C5_Witness ==
    /\ pc = "done"
    /\ \E j, k \in DOMAIN withEffective :
          /\ j < k
          /\ withEffective[j].effectiveArrival = withEffective[k].effectiveArrival
    /\ \E j, k \in DOMAIN withEffective :
          /\ j < k
          /\ InputPos(withEffective[j].id) > InputPos(withEffective[k].id)

\* ------------------------------------------------------------------ C6

IdsOn(p) == [k \in DOMAIN platforms[p].trains |-> platforms[p].trains[k].id]

\* the input is three trains with effective intervals 0-20, 10-30, 25-40
WorkedExample ==
    /\ Len(trains) = 3
    /\ weights = DEFAULT_WEIGHTS
    /\ trains[1].arrival + trains[1].delay = 0
    /\ trains[1].departure + trains[1].delay = 20
    /\ trains[2].arrival + trains[2].delay = 10
    /\ trains[2].departure + trains[2].delay = 30
    /\ trains[3].arrival + trains[3].delay = 25
    /\ trains[3].departure + trains[3].delay = 40

\* C7: for the trains A (0-20), B (10-30), C (25-40) in that order and the
\* default weights, the run returns two platforms, platform 1 holding A then
\* C and platform 2 holding B.
C7_WorkedExample ==
    (pc = "done" /\ WorkedExample) =>
        /\ Len(platforms) = 2
        /\ platforms[1].id = 1
        /\ platforms[2].id = 2
        /\ IdsOn(1) = <<1, 3>>
        /\ IdsOn(2) = <<2>>

C7_Witness ==
    /\ pc = "done"
    /\ WorkedExample
    /\ trains[1].name = "A"
    /\ trains[2].name = "B"
    /\ trains[3].name = "C"

\* ------------------------------------------------------------------ C8

\* C8: a run on the empty train list returns the empty platform list, and
\* no platform of a run is ever without a train.
C8_EmptyInput ==
    /\ (pc = "done" /\ trains = << >>) => platforms = << >>
    /\ \A p \in DOMAIN platforms : Len(platforms[p].trains) >= 1

C8_Witness ==
    /\ pc = "done"
    /\ trains = << >>
    /\ prevResult # << >>

\* ------------------------------------------------------------------ C9

\* the driver has ticked at least once
Ticked == iv # "none"

\* C9: once the driver has ticked, a list of at least two trains holds
\* exactly two trains with status "delayed", each with a delay from 5 to 18,
\* and every other train has status "on-time" and delay 0.
C9_TwoDelayed ==
    (Ticked /\ Len(trains) >= 2) =>
        \E D \in SUBSET (DOMAIN trains) :
            /\ Cardinality(D) = 2
            /\ \A i \in D :
                  /\ trains[i].status = "delayed"
                  /\ trains[i].delay >= 5
                  /\ trains[i].delay <= 18
            /\ \A i \in (DOMAIN trains) \ D :
                  /\ trains[i].status = "on-time"
                  /\ trains[i].delay = 0

\* after a tick of the interval: the extreme delays 5 and 18, and a train
\* that is on time
C9_Witness ==
    /\ iv = "active"
    /\ pc = "done"
    /\ Len(trains) >= 3
    /\ \E i, j \in DOMAIN trains : trains[i].delay = 18 /\ trains[j].delay = 5
    /\ \E i \in DOMAIN trains : trains[i].status = "on-time"

\* ------------------------------------------------------------------ C10

\* the driver was started and has been stopped
Stopped == iv # "none" /\ ~mounted

\* C10: once the driver is stopped the train list never changes again and
\* the driver stays stopped; the train list changes only by a tick of the
\* started driver; starting the driver ticks at once; and as long as the
\* driver is never stopped, ticks of the interval occur again and again.
C10_Cancellation ==
    /\ [][Stopped => (trains' = trains /\ Stopped')]_vars
    /\ [][trains' # trains => (mounted' /\ iv' = "active")]_vars
    /\ [][(~mounted /\ mounted') => Tick]_vars
    /\ (<>[]mounted) => []<><<IntervalTick>>_vars

\* the driver was stopped after ticks had delayed two trains
C10_Witness ==
    /\ Stopped
    /\ iv = "cleared"
    /\ pc = "done"
    /\ Cardinality({ i \in DOMAIN trains : trains[i].status = "delayed" }) = 2

\* ------------------------------------------------------------------ C11

\* sum of the delays of the trains at the places 1..k of a platform
RECURSIVE DelaysUpTo(_, _)
DelaysUpTo(pl, k) ==
    IF k = 0 THEN 0 ELSE pl.trains[k].delay + DelaysUpTo(pl, k - 1)

\* number of trains of a platform with status "delayed"
DelayedOn(pl) == Cardinality({ k \in DOMAIN pl.trains : pl.trains[k].status = "delayed" })

\* the fraction f equals a / b
EqualsRatio(f, a, b) == f.den # 0 /\ f.num * b = a * f.den

\* C11: after a run, the end metric stored for every platform is (sum of its
\* trains' delays + number of its delayed trains) / number of its trains; it
\* is 5.5 for total delay 10, one delayed train and two trains; and it is 0
\* for a platform without trains.
C11_EndMetric ==
    pc = "done" =>
        \A p \in DOMAIN platforms :
            LET pl == platforms[p]
                m  == platformMetrics[pl.id]
            IN  /\ EqualsRatio(m.endMetric,
                               DelaysUpTo(pl, Len(pl.trains)) + DelayedOn(pl),
                               Len(pl.trains))
                /\ (DelaysUpTo(pl, Len(pl.trains)) = 10 /\ DelayedOn(pl) = 1
                        /\ Len(pl.trains) = 2)
                      => EqualsRatio(m.endMetric, 11, 2)
                /\ EqualsRatio(MetricsOf([pl EXCEPT !.trains = << >>]).endMetric, 0, 1)

\* a platform with total delay 10, one delayed train and two trains
C11_Witness ==
    /\ pc = "done"
    /\ \E p \in DOMAIN platforms :
          /\ platformMetrics[platforms[p].id].totalDelay = 10
          /\ platformMetrics[platforms[p].id].delayedCount = 1
          /\ platformMetrics[platforms[p].id].totalTrains = 2

\* ------------------------------------------------------------------ C12

\* the first platform, in creation order, that is free by the arrival of the
\* train being placed
EarliestFree == CHOOSE b \in FeasibleNow : \A j \in FeasibleNow : b <= j

\* C12: every step of the loop pushes the train onto the earliest platform
\* that is free by its effective arrival, and opens a new platform only when
\* no platform is free by then.
C12_EarliestFreePlatform ==
    [][ (pc = "loop" /\ pos <= Len(withEffective)) =>
            IF FeasibleNow # {}
            THEN platforms' = [platforms EXCEPT
                                 ![EarliestFree] = PushTrain(platforms[EarliestFree],
                                                             withEffective[pos])]
            ELSE platforms' = Append(platforms, NewPlatform(platforms, withEffective[pos]))
      ]_vars

\* ------------------------------------------------------------------ C13

\* ids 1..n in list order, no platform without a train, nextFreeAt the
\* effective departure of the platform's last train, one metrics entry per
\* platform
WellNumbered ==
    /\ \A p \in DOMAIN platforms :
          /\ platforms[p].id = p
          /\ Len(platforms[p].trains) >= 1
          /\ platforms[p].nextFreeAt
                = platforms[p].trains[Len(platforms[p].trains)].effectiveDeparture
    /\ DOMAIN platformMetrics = 1..Len(platforms)

\* a step of the loop opens a platform exactly when no platform has
\* nextFreeAt <= the train's effectiveArrival; the platform opened is the
\* last one, has id = number of platforms before + 1 and holds only the
\* train; and no step of the loop removes a platform
CreatesWhenInfeasible ==
    (pc = "loop" /\ pos <= Len(withEffective)) =>
        LET train == withEffective[pos]
            free  == { j \in DOMAIN platforms :
                          platforms[j].nextFreeAt <= train.effectiveArrival }
            n     == Len(platforms)
        IN  /\ Len(platforms') >= n
            /\ (Len(platforms') > n) <=> (free = {})
            /\ free = {} =>
                  /\ Len(platforms') = n + 1
                  /\ SubSeq(platforms', 1, n) = platforms
                  /\ platforms'[n + 1] = [id |-> n + 1, trains |-> <<train>>,
                                          nextFreeAt |-> train.effectiveDeparture]
            /\ free # {} =>
                  \A j \in DOMAIN platforms : platforms'[j].id = platforms[j].id

\* C13: a platform is created exactly when no existing platform is feasible,
\* it gets id = number of platforms + 1, the ids are 1..n in list order in
\* every state, the metrics map has one entry per platform, no platform is
\* removed during a run, and nextFreeAt is the effective departure of the
\* platform's last train.
C13_CreationAndNumbering ==
    /\ []WellNumbered
    /\ [][CreatesWhenInfeasible]_vars

\* three platforms, one of them reused
C13_Witness ==
    /\ pc = "done"
    /\ Len(platforms) >= 3
    /\ \E p \in DOMAIN platforms : Len(platforms[p].trains) >= 2

\* ------------------------------------------------------------------ C14

\* the fields of a train that a tick is not to touch
Schedule(t) == [id |-> t.id, name |-> t.name, arrival |-> t.arrival, departure |-> t.departure]

\* C14: every step leaves the number of trains, their order and each
\* train's id, name, arrival and departure as they are, and they are those
\* of initializeTrains; a step of an engine run leaves the whole train list
\* as it is.
C14_Frame ==
    [][ /\ Len(trains') = Len(trains)
        /\ \A i \in DOMAIN trains :
              /\ Schedule(trains'[i]) = Schedule(trains[i])
              /\ Schedule(trains'[i]) = Schedule(initializeTrains[i])
        /\ (pc \in {"idle", "loop"}) => trains' = trains
      ]_vars

\* after ticks and a run: a delayed train, and a run whose sorted copy is in
\* another order than the train list
C14_Witness ==
    /\ pc = "done"
    /\ iv = "active"
    /\ \E i \in DOMAIN trains : trains[i].delay > 0
    /\ Len(withEffective) = Len(trains)
    /\ \E i \in DOMAIN trains : withEffective[i].id # trains[i].id

\* ------------------------------------------------------------------ C15

\* every input train departs after it arrives
DepartsAfterArrival == \A i \in DOMAIN trains : trains[i].departure > trains[i].arrival

\* number of input trains whose effective interval [arrival, departure)
\* contains the instant t
DepthAt(t) ==
    Cardinality({ i \in DOMAIN trains :
                    /\ trains[i].arrival + trains[i].delay <= t
                    /\ t < trains[i].departure + trains[i].delay })

\* the largest number of effective intervals with a common instant; an
\* instant in several intervals lies in as many at the latest of their starts
MaxDepth ==
    LET starts == { trains[i].arrival + trains[i].delay : i \in DOMAIN trains }
    IN  IF starts = {} THEN 0
        ELSE CHOOSE d \in { DepthAt(t) : t \in starts } :
                 \A t \in starts : DepthAt(t) <= d

\* the effective intervals of a and b have no instant in common
Disjoint(a, b) ==
    \/ a.effectiveDeparture <= b.effectiveArrival
    \/ b.effectiveDeparture <= a.effectiveArrival

\* C15: when every input train departs after it arrives, a run returns as
\* many platforms as the largest number of effective intervals with a common
\* instant, whatever the weights, and any two trains of a platform have
\* disjoint effective intervals.
C15_MinimalPlatforms ==
    (pc = "done" /\ DepartsAfterArrival) =>
        /\ Len(platforms) = MaxDepth
        /\ \A p \in DOMAIN platforms :
              \A j, k \in DOMAIN platforms[p].trains :
                  j # k => Disjoint(platforms[p].trains[j], platforms[p].trains[k])

\* fewer platforms than trains, and a train placed right at the effective
\* departure of the train before it
C15_Witness ==
    /\ pc = "done"
    /\ DepartsAfterArrival
    /\ Len(platforms) >= 2
    /\ \E p \in DOMAIN platforms :
          /\ Len(platforms[p].trains) >= 3
          /\ \E k \in 1..(Len(platforms[p].trains) - 1) :
                platforms[p].trains[k + 1].effectiveArrival
                    = platforms[p].trains[k].effectiveDeparture

====
